---- MODULE Spec2Model ----
(***************************************************************************)
(* Model of the minimap2 wrapper crate (src/minimap2/src/lib.rs): the      *)
(* multi-part index and its reference dictionary, the per-thread           *)
(* InnerAligner (thread buffer + mapping options), the translation of the  *)
(* engine's registers into SAM records, and align_batch's scoped worker    *)
(* threads.  The alignment engine itself (minimap2-sys) is external: its   *)
(* calls are modelled by their outcomes.                                   *)
(***************************************************************************)
EXTENDS Integers, Sequences, FiniteSets, TLC

(* ------------------------------------------------------------------ *)
(* Bounds of the model                                                 *)
(* ------------------------------------------------------------------ *)
MaxQueries == 3      \* longest query list of a batch whose workers are run
MaxBatchThreads == 2 \* largest num_threads / detected parallelism of such a batch
MaxAligners == 2     \* aligner values (the original and its clones) alive at once
MaxLeaks == 1        \* leaked contexts after which no further leaking failure is explored
MaxLen == 40         \* longest query list whose partition is computed
MaxThreadArg == 34   \* largest num_threads argument
MaxDetected == 18    \* largest available_parallelism() value
MaxParts == 2        \* parts of an index whose dictionary is computed
MaxSeqs == 3         \* sequence entries of such an index, over all its parts
MaxOpLen == 10       \* longest operation of a one-operation CIGAR
MaxCigar == 3        \* most operations of a CIGAR
MaxStream == 4       \* most records of a streamed input
MaxBatchSize == 3    \* largest ParallelConfig.batch_size
MaxRegs == 2         \* most registers mm_map returns for one part

(* ------------------------------------------------------------------ *)
(* Program constants                                                   *)
(* ------------------------------------------------------------------ *)
AutoThreadCap == 16          \* min(available, 16)
ThreadCap == 32              \* min(num_threads, 32)
REVERSE_COMPLEMENTED == 16   \* noodles Flags::REVERSE_COMPLEMENTED
UNMAPPED == 4                \* the FLAG the test expects for "*" records

MaxI32 == 2147483647         \* i32::MAX, the largest reg.rs
MaxU8 == 255                 \* u8::MAX, the largest reg.mapq()

NoRid == -1          \* Option<usize>::None of reference_sequence_id
NoPos == 0           \* Option<Position>::None (Position is >= 1)

Min(a, b) == IF a < b THEN a ELSE b
Max(a, b) == IF a > b THEN a ELSE b

(* ------------------------------------------------------------------ *)
(* Sequence names: C strings, as sequences of bytes                    *)
(* ------------------------------------------------------------------ *)
Name1 == <<49>>          \* "1"
Name10 == <<49, 48>>     \* "10"
Name2 == <<50>>          \* "2"
NameBad == <<255>>       \* a byte string that is not UTF-8

\* CStr::to_str(): the 0xFF byte occurs in no UTF-8 text
IsUtf8(name) == \A i \in 1..Len(name) : name[i] < 128

\* Ord for String / [u8]: lexicographic by byte, a proper prefix first
RECURSIVE LexLess(_, _)
LexLess(a, b) ==
    IF Len(b) = 0 THEN FALSE
    ELSE IF Len(a) = 0 THEN TRUE
    ELSE IF a[1] # b[1] THEN a[1] < b[1]
    ELSE LexLess(Tail(a), Tail(b))

\* one mm_idx_seq_t: name pointer (null or a C string) and len
SeqEntry(null, name, len) == [null |-> null, name |-> name, len |-> len]

SeqEntries ==
    { SeqEntry(FALSE, Name1, 1), SeqEntry(FALSE, Name1, 2),
      SeqEntry(FALSE, Name2, 1), SeqEntry(FALSE, Name10, 0),
      SeqEntry(TRUE, <<>>, 1),   SeqEntry(FALSE, NameBad, 1) }

(* ------------------------------------------------------------------ *)
(* Minimap2Index::extract_header                                       *)
(* ------------------------------------------------------------------ *)
\* the body of the innermost loop: skip, or insert / keep the longer
HeaderInsertShorter(m, e) ==
    IF e.null \/ e.len = 0 THEN m
    ELSE IF ~IsUtf8(e.name) THEN m
    ELSE IF \E x \in m : x.name = e.name
         THEN LET x == CHOOSE y \in m : y.name = e.name
              IN IF e.len < x.len
                 THEN (m \ {x}) \cup {[name |-> e.name, len |-> e.len]}
                 ELSE m
         ELSE m \cup {[name |-> e.name, len |-> e.len]}

HeaderInsert(m, e) ==
    IF e.null \/ e.len = 0 THEN m
    ELSE IF ~IsUtf8(e.name) THEN m
    ELSE IF \E x \in m : x.name = e.name
         THEN LET x == CHOOSE y \in m : y.name = e.name
              IN IF e.len > x.len
                 THEN (m \ {x}) \cup {[name |-> e.name, len |-> e.len]}
                 ELSE m
         ELSE m \cup {[name |-> e.name, len |-> e.len]}

\* all entries of all parts, in the order the two loops visit them
RECURSIVE Flatten(_)
Flatten(ps) == IF ps = <<>> THEN <<>> ELSE Head(ps) \o Flatten(Tail(ps))

RECURSIVE CollectSequences(_, _)
CollectSequences(m, es) ==
    IF es = <<>> THEN m
    ELSE CollectSequences(HeaderInsert(m, Head(es)), Tail(es))

\* iteration of the BTreeMap: ascending key order
RECURSIVE InKeyOrder(_)
InKeyOrder(m) ==
    IF m = {} THEN <<>>
    ELSE LET lo == CHOOSE x \in m : \A y \in m : y = x \/ LexLess(x.name, y.name)
         IN <<lo>> \o InKeyOrder(m \ {lo})

ExtractHeader(ps) == InKeyOrder(CollectSequences({}, Flatten(ps)))

(* ------------------------------------------------------------------ *)
(* InnerAligner::generate_cigar_ops and reg_to_sam_record              *)
(* ------------------------------------------------------------------ *)
NoCigar == <<-1>>    \* reg.p is null

KindOfPadding(op) ==
    CASE op = 0 -> "Match" [] op = 1 -> "Insertion" [] op = 2 -> "Deletion"
      [] op = 3 -> "Skip" [] op = 4 -> "SoftClip" [] op = 5 -> "HardClip"
      [] op = 6 -> "Pad"
      [] op = 7 -> "SequenceMatch" [] op = 8 -> "SequenceMismatch"
      [] OTHER -> "Match"

KindOf(op) ==
    CASE op = 0 -> "Match" [] op = 1 -> "Insertion" [] op = 2 -> "Deletion"
      [] op = 3 -> "Skip" [] op = 4 -> "SoftClip" [] op = 5 -> "HardClip"
      [] op = 7 -> "SequenceMatch" [] op = 8 -> "SequenceMismatch"
      [] OTHER -> "Match"

GenerateCigarOps(p) ==
    IF p = NoCigar THEN <<>>
    ELSE [i \in 1..Len(p) |-> [kind |-> KindOf(p[i] % 16), len |-> p[i] \div 16]]

Reg(rid, rs, rev, mapq, p) ==
    [rid |-> rid, rs |-> rs, rev |-> rev, mapq |-> mapq, p |-> p]

\* Flags::empty(), with REVERSE_COMPLEMENTED or-ed in when reg.rev() != 0
SamFlagsForward(rev) == IF rev = 0 THEN REVERSE_COMPLEMENTED ELSE 0

SamFlags(rev) == IF rev # 0 THEN REVERSE_COMPLEMENTED ELSE 0

\* whether the build checks integer overflow (debug-assertions / overflow-checks)
VARIABLE overflowChecks

\* (reg.rs + 1) as usize: the i32 sum panics at i32::MAX when overflow is
\* checked and wraps to i32::MIN otherwise (the cast then gives 2^64 - 2^31)
SamStart(rs, checks) ==
    IF rs < 0 THEN [panic |-> FALSE, val |-> NoPos]
    ELSE IF rs = MaxI32
    THEN IF checks THEN [panic |-> TRUE, val |-> NoPos]
         ELSE [panic |-> FALSE, val |-> (-MaxI32) - 1]
    ELSE [panic |-> FALSE, val |-> rs + 1]

\* MappingQuality::try_from(reg.mapq() as u8): 255 is the missing value and
\* is refused
MappingQualityOfCapped(mapq) ==
    [ok |-> (mapq % (MaxU8 + 1)) # MaxU8, val |-> IF mapq > 60 THEN 60 ELSE mapq]

MappingQualityOf(mapq) ==
    [ok |-> (mapq % (MaxU8 + 1)) # MaxU8, val |-> mapq % (MaxU8 + 1)]

\* the record, whether the conversion returned Ok, and whether it panicked
RegToSamRecordNoBound(hdr, qname, reg) ==
    [ ok    |-> MappingQualityOf(reg.mapq).ok,
      panic |-> SamStart(reg.rs, overflowChecks).panic,
      name  |-> qname,
      rid   |-> IF reg.rid >= 0 THEN reg.rid ELSE NoRid,
      start |-> SamStart(reg.rs, overflowChecks).val,
      mapq  |-> MappingQualityOf(reg.mapq).val,
      flags |-> SamFlags(reg.rev),
      cigar |-> GenerateCigarOps(reg.p) ]

RegToSamRecord(hdr, qname, reg) ==
    [ ok    |-> MappingQualityOf(reg.mapq).ok,
      panic |-> SamStart(reg.rs, overflowChecks).panic,
      name  |-> qname,
      rid   |-> IF reg.rid >= 0 /\ reg.rid < Len(hdr) THEN reg.rid ELSE NoRid,
      start |-> SamStart(reg.rs, overflowChecks).val,
      mapq  |-> MappingQualityOf(reg.mapq).val,
      flags |-> SamFlags(reg.rev),
      cigar |-> GenerateCigarOps(reg.p) ]

(* ------------------------------------------------------------------ *)
(* The engine, seen from the wrapper                                   *)
(* ------------------------------------------------------------------ *)
\* a fastq record: its content (id) and what its name bytes are like
NameKinds == {"ok", "nul", "badutf8"}
Query(id, kind) == [id |-> id, kind |-> kind]

\* mm_map as a deterministic function of index part and query: the registers
NumHits(p, q) == (p * q.id) % 3
EngineMap(p, q) ==
    [i \in 1..NumHits(p, q) |-> Reg((i + p) % 2, q.id + i, p % 2, 60, <<(q.id * 16) + 0>>)]

\* outcomes of the engine / allocator calls made by InnerAligner::new
EngOutcome(tbuf, malloc, preset) == [tbuf |-> tbuf, malloc |-> malloc, preset |-> preset]
EngOutcomes ==
    { EngOutcome(TRUE, TRUE, 0), EngOutcome(FALSE, TRUE, 0),
      EngOutcome(TRUE, FALSE, 0), EngOutcome(TRUE, TRUE, -1) }

(* ------------------------------------------------------------------ *)
(* Minimap2Opts and InnerAligner::new                                  *)
(* ------------------------------------------------------------------ *)
NoPreset == "none"
\* Minimap2Opts::new(genome_dir)
DefaultOpts ==
    [preset |-> NoPreset, forward_only |-> FALSE, sam_output |-> TRUE,
     extra_params |-> <<>>]
\* ... .with_preset(p).with_forward_only(f), and the public sam_output field
AllOpts ==
    [preset : {NoPreset, "map-ont"}, forward_only : BOOLEAN, sam_output : BOOLEAN,
     extra_params : {<<>>}]

\* format!("--threads={}", num_threads)
ThreadsParam(n) == [flag |-> "--threads", value |-> n]

\* if let Some(preset) = opts.preset { apply_preset(..)? }: negative when the
\* call is made and mm_set_opt returns a negative code
ApplyPresetIgnored(preset, code) == 0

ApplyPreset(preset, code) == IF preset # NoPreset /\ code < 0 THEN -1 ELSE 0

\* the result of the constructor, and which native allocations of this call
\* are still allocated when it returns
InnerAlignerNew(opts, eng) ==
    IF ~eng.tbuf
    THEN [st |-> "err", err |-> "tbuf", tbuf |-> FALSE, opts |-> FALSE, flag |-> {}]
    ELSE IF ~eng.malloc
    THEN [st |-> "err", err |-> "malloc", tbuf |-> FALSE, opts |-> FALSE, flag |-> {}]
    ELSE IF ApplyPreset(opts.preset, eng.preset) < 0
    THEN [st |-> "err", err |-> "preset", tbuf |-> TRUE, opts |-> TRUE, flag |-> {}]
    ELSE [st |-> "ok", err |-> "none", tbuf |-> TRUE, opts |-> TRUE,
          flag |-> (IF opts.forward_only THEN {"MM_F_FOR_ONLY"} ELSE {})
                   \cup (IF opts.sam_output THEN {"MM_F_CIGAR"} ELSE {})]

\* an address the allocator hands out: one that is not in use
FreshId(live) ==
    CHOOSE i \in 1..(Cardinality(live) + 1) :
        i \notin live /\ \A j \in 1..(i - 1) : j \in live

NoCtx == [tbuf |-> 0, opts |-> 0]

(* ------------------------------------------------------------------ *)
(* align_batch: worker count and chunks                                *)
(* ------------------------------------------------------------------ *)
EffectiveThreadsSwapped(n, avail) ==
    IF n = 0 THEN Max(1, Min(avail, ThreadCap))
    ELSE Max(1, Min(n, AutoThreadCap))

EffectiveThreads(n, avail) ==
    IF n = 0 THEN Max(1, Min(avail, AutoThreadCap))
    ELSE Max(1, Min(n, ThreadCap))

ChunkSizeFloor(len, w) == Max(1, len \div w)

ChunkSize(len, w) == (len + w - 1) \div w

\* slice::chunks(size) over positions from..len, as [lo, hi] ranges
RECURSIVE ChunksFrom(_, _, _)
ChunksFrom(from, len, size) ==
    IF from > len THEN <<>>
    ELSE <<[lo |-> from, hi |-> Min(from + size - 1, len)]>>
         \o ChunksFrom(from + size, len, size)

\* records.chunks(chunk_size), the last chunk being the shorter one
ChunksExact(len, size) ==
    [k \in 1..(len \div size) |-> [lo |-> ((k - 1) * size) + 1, hi |-> k * size]]

Chunks(len, size) == ChunksFrom(1, len, size)

(* ------------------------------------------------------------------ *)
(* State                                                               *)
(* ------------------------------------------------------------------ *)
VARIABLES
    parts,          \* Minimap2Index.parts: per part, the engine's seq array
    header,         \* Minimap2Index.header: the reference dictionary
    loaded,         \* whether load has built the index
    xl,             \* the register translated last, with its record
    partDestroyed,  \* per part, the number of mm_idx_destroy calls on it
    arc,            \* strong count of the Arc<Minimap2Index>
    aligners,       \* the Minimap2Aligner values: alive, and their InnerAligner
    heap,           \* native allocations: thread buffers and option blocks
    batch,          \* the locals of the align_batch call in progress
    thr,            \* the scoped worker threads of that call, in spawn order
    mainRun,        \* the align_read call in progress on the calling thread
    opts,           \* Minimap2Aligner.opts, the options the aligner was built from
    ld,             \* the Minimap2Aligner::new call: what the engine did, the outcome
    stream          \* the BatchAligner::process_stream call in progress

vars == <<parts, header, loaded, xl, partDestroyed, arc, aligners, heap,
          batch, thr, mainRun, opts, ld, stream, overflowChecks>>

\* the index the aligners of the concurrent model share
MainParts ==
    << <<SeqEntry(FALSE, Name2, 1), SeqEntry(FALSE, Name1, 2)>>,
       <<SeqEntry(FALSE, Name1, 1)>> >>

NoXl == [part |-> 0, reg |-> Reg(0, 0, 0, 0, NoCigar), rec |-> <<>>]
IdleBatch ==
    [pc |-> "idle", a |-> 0, recs |-> <<>>, n |-> 0, avail |-> 0, workers |-> 0,
     chunks |-> <<>>, joined |-> 0, all |-> <<>>, cres |-> "none",
     outcome |-> "none", result |-> <<>>]
IdleRun ==
    [st |-> "idle", a |-> 0, q |-> Query(0, "ok"), part |-> 0, cur |-> <<>>,
     out |-> "none", recs |-> <<>>, viol |-> FALSE,
     upd |-> 0,        \* the part the options block was last updated for
     log |-> <<>>,     \* the engine calls of this align_read, in order
     rets |-> <<>>,    \* what mm_map returned, part by part
     leaked |-> 0]     \* register arrays received and not freed

NoEnv == [exists |-> TRUE, preset |-> 0, reader |-> TRUE, file |-> <<>>]
IdleLoad ==
    [pc |-> "idle", env |-> NoEnv, eng |-> EngOutcome(TRUE, TRUE, 0), stage |-> "none",
     out |-> "none", calls |-> <<>>,
     fn |-> "none", threads |-> 0, given |-> DefaultOpts]
IdleStream ==
    [pc |-> "idle", input |-> <<>>, size |-> 0, pos |-> 0, buf |-> <<>>,
     results |-> <<>>, sizes |-> <<>>, given |-> <<>>, out |-> "none"]

Terminated == {"ok", "err", "panic"}
InCall == {"update", "map"}

(* ------------------------------------------------------------------ *)
(* Ownership: contexts and the shared index                            *)
(* ------------------------------------------------------------------ *)
\* the heap after InnerAligner::new returned r
HeapAfterNew(h, r) ==
    LET t == FreshId(h.tbuf)
        o == FreshId(h.opts)
    IN [ tbuf |-> IF r.tbuf THEN h.tbuf \cup {t} ELSE h.tbuf,
         opts |-> IF r.opts THEN h.opts \cup {o} ELSE h.opts,
         lostTbuf |-> IF r.st = "err" /\ r.tbuf THEN h.lostTbuf \cup {t} ELSE h.lostTbuf,
         lostOpts |-> IF r.st = "err" /\ r.opts THEN h.lostOpts \cup {o} ELSE h.lostOpts ]

\* the InnerAligner it returned
CtxAfterNew(h, r) ==
    IF r.st = "ok" THEN [tbuf |-> FreshId(h.tbuf), opts |-> FreshId(h.opts)] ELSE NoCtx

\* exploring a leaking failure is bounded
MayExplore(h, r) ==
    (r.st = "err" /\ r.tbuf) => Cardinality(h.lostTbuf) < MaxLeaks

\* Drop for InnerAligner
HeapAfterDrop(h, ctx) ==
    [h EXCEPT !.tbuf = @ \ {ctx.tbuf}, !.opts = @ \ {ctx.opts}]

\* dropping one Arc<Minimap2Index>: the last one drops the parts, and Drop
\* for IndexPart calls mm_idx_destroy on each
DestroyedAfterReleaseUncounted(count, pd) == [p \in DOMAIN pd |-> pd[p] + 1]

DestroyedAfterRelease(count, pd) ==
    IF count = 1 THEN [p \in DOMAIN pd |-> pd[p] + 1] ELSE pd

\* the context a batch worker aligns with: the one it constructed
WorkerCtxShared(own, parent) == parent

WorkerCtx(own, parent) == own

\* the context of a clone: InnerAligner::new(&self.opts), not the original's
CloneCtxOfOriginal(own, parent) == parent

CloneCtx(own, parent) == own

\* &self.index.header of an index [parts, header]
IndexHeaderLastPart(idx) == ExtractHeader(<<idx.parts[Len(idx.parts)]>>)

IndexHeader(idx) == idx.header

(* ------------------------------------------------------------------ *)
(* InnerAligner::align_read, one engine call at a time                 *)
(* ------------------------------------------------------------------ *)
\* CString::new(query_name): fails on an interior NUL, before any engine call
NameCstrOk(q) == q.kind # "nul"

\* for reg in reg_slice { if let Ok(record) = .. { push } }
RECURSIVE TranslateAllUntilError(_, _, _)
TranslateAllUntilError(hdr, q, regs) ==
    IF regs = <<>> THEN <<>>
    ELSE LET r == RegToSamRecord(hdr, q.id, Head(regs))
         IN IF r.ok THEN <<r>> \o TranslateAllUntilError(hdr, q, Tail(regs)) ELSE <<>>

TranslateAll(hdr, q, regs) ==
    SelectSeq([i \in DOMAIN regs |-> RegToSamRecord(hdr, q.id, regs[i])],
              LAMBDA r : r.ok)

\* the translation of some register of the array panics
TranslatePanics(hdr, q, regs) ==
    \E i \in DOMAIN regs : RegToSamRecord(hdr, q.id, regs[i]).panic

\* what mm_map returned: the array pointer (null or not), *n_reg, the registers
MapReturn(null, n, regs) == [null |-> null, n |-> n, regs |-> regs]

\* a count without an array
ContractViolation(ret) == ret.null /\ ret.n > 0

\* if !regs.is_null() && n_reg > 0 { translate each; free(regs) }: the
\* records so far, or the std::str::from_utf8(query_name)? error or a panic
\* inside the register loop; and whether the array was freed
AfterMapReturnPrepending(hdr, q, ret, cur) ==
    IF ~ret.null /\ ret.n > 0
    THEN IF q.kind = "badutf8"
         THEN [err |-> TRUE, panic |-> FALSE, cur |-> cur, freed |-> FALSE]
         ELSE IF TranslatePanics(hdr, q, ret.regs)
         THEN [err |-> FALSE, panic |-> TRUE, cur |-> cur, freed |-> FALSE]
         ELSE [err |-> FALSE, panic |-> FALSE, freed |-> TRUE,
               cur |-> TranslateAll(hdr, q, ret.regs) \o cur]
    ELSE [err |-> FALSE, panic |-> FALSE, cur |-> cur, freed |-> FALSE]

AfterMapReturn(hdr, q, ret, cur) ==
    IF ~ret.null /\ ret.n > 0
    THEN IF q.kind = "badutf8"
         THEN [err |-> TRUE, panic |-> FALSE, cur |-> cur, freed |-> FALSE]
         ELSE IF TranslatePanics(hdr, q, ret.regs)
         THEN [err |-> FALSE, panic |-> TRUE, cur |-> cur, freed |-> FALSE]
         ELSE [err |-> FALSE, panic |-> FALSE, freed |-> TRUE,
               cur |-> cur \o TranslateAll(hdr, q, ret.regs)]
    ELSE [err |-> FALSE, panic |-> FALSE, cur |-> cur, freed |-> FALSE]

\* mm_mapopt_update(self.opts, part.inner): the part the options are updated for
PartToUpdateFirst(part) == 1

PartToUpdate(part) == part

AfterMap(hdr, q, part, cur) ==
    LET regs == EngineMap(part, q)
    IN AfterMapReturn(hdr, q, MapReturn(FALSE, Len(regs), regs), cur)

(* ------------------------------------------------------------------ *)
(* Initial state: Minimap2Aligner::new(opts) has returned one aligner  *)
(* ------------------------------------------------------------------ *)
Init ==
    /\ parts = MainParts
    /\ header = ExtractHeader(MainParts)
    /\ loaded = TRUE
    /\ xl = NoXl
    /\ partDestroyed = [p \in 1..Len(MainParts) |-> 0]
    /\ arc = 1
    /\ aligners = [a \in 1..MaxAligners |->
                     IF a = 1 THEN [alive |-> TRUE, ctx |-> [tbuf |-> 1, opts |-> 1]]
                     ELSE [alive |-> FALSE, ctx |-> NoCtx]]
    /\ heap = [tbuf |-> {1}, opts |-> {1}, lostTbuf |-> {}, lostOpts |-> {}]
    /\ batch = IdleBatch
    /\ thr = <<>>
    /\ mainRun = IdleRun
    /\ opts = DefaultOpts
    /\ ld = IdleLoad
    /\ stream = IdleStream
    /\ overflowChecks = FALSE

\* the calling thread is between two calls
MainIdle == batch.pc = "idle" /\ mainRun.st = "idle"

indexVars == <<parts, header, loaded, xl, opts, ld, stream, overflowChecks>>

(* ------------------------------------------------------------------ *)
(* Clone and drop of a Minimap2Aligner                                 *)
(* ------------------------------------------------------------------ *)
Clone(a, eng) ==
    /\ MainIdle
    /\ aligners[a].alive
    /\ \E b \in 1..MaxAligners : ~aligners[b].alive
    /\ LET b == CHOOSE x \in 1..MaxAligners :
                    ~aligners[x].alive /\ \A y \in 1..(x - 1) : aligners[y].alive
           r == InnerAlignerNew(opts, eng)
       IN /\ MayExplore(heap, r)
          /\ heap' = HeapAfterNew(heap, r)
          /\ IF r.st = "ok"
             THEN /\ aligners' = [aligners EXCEPT
                                    ![b] = [alive |-> TRUE,
                                            ctx |-> CloneCtx(CtxAfterNew(heap, r),
                                                             aligners[a].ctx)]]
                  /\ arc' = arc + 1
                  /\ batch' = batch
             ELSE \* .expect(..) panics; unwinding drops the cloned Arc again
                  /\ batch' = [batch EXCEPT !.pc = "panicked"]
                  /\ UNCHANGED <<aligners, arc>>
    /\ UNCHANGED <<indexVars, partDestroyed, thr, mainRun>>

DropAligner(a) ==
    /\ MainIdle
    /\ aligners[a].alive
    /\ aligners' = [aligners EXCEPT ![a] = [alive |-> FALSE, ctx |-> NoCtx]]
    /\ partDestroyed' = DestroyedAfterRelease(arc, partDestroyed)
    /\ arc' = arc - 1
    /\ heap' = HeapAfterDrop(heap, aligners[a].ctx)
    /\ UNCHANGED <<indexVars, batch, thr, mainRun>>

(* ------------------------------------------------------------------ *)
(* Minimap2Aligner::align_read on the calling thread                   *)
(* ------------------------------------------------------------------ *)
ReadCall(a, q) ==
    /\ MainIdle
    /\ aligners[a].alive
    /\ mainRun' = IF NameCstrOk(q)
                  THEN [IdleRun EXCEPT !.st = "update", !.a = a, !.q = q, !.part = 1]
                  ELSE [IdleRun EXCEPT !.st = "done", !.a = a, !.q = q, !.out = "err"]
    /\ UNCHANGED <<indexVars, partDestroyed, arc, aligners, heap, batch, thr>>

\* mm_mapopt_update returned; mm_map is entered
ReadUpdateDone ==
    /\ mainRun.st = "update"
    /\ LET u == PartToUpdate(mainRun.part)
       IN mainRun' = [mainRun EXCEPT !.st = "map", !.upd = u,
                        !.log = Append(@, [call |-> "update", part |-> u, upd |-> u])]
    /\ UNCHANGED <<indexVars, partDestroyed, arc, aligners, heap, batch, thr>>

\* mm_map returned ret; its registers are translated and freed
ReadMapReturn(ret) ==
    /\ mainRun.st = "map"
    /\ LET r == AfterMapReturn(header, mainRun.q, ret, mainRun.cur)
           v == mainRun.viol \/ ContractViolation(ret)
           m == [mainRun EXCEPT
                   !.viol = v,
                   !.log = Append(@, [call |-> "map", part |-> mainRun.part,
                                      upd |-> mainRun.upd]),
                   !.rets = Append(@, ret),
                   !.leaked = IF ~ret.null /\ ~r.freed THEN @ + 1 ELSE @]
       IN mainRun' =
            IF r.err THEN [m EXCEPT !.st = "done", !.out = "err", !.cur = <<>>]
            ELSE IF r.panic THEN [m EXCEPT !.st = "done", !.out = "panic", !.cur = <<>>]
            ELSE IF mainRun.part < Len(parts)
            THEN [m EXCEPT !.st = "update", !.part = @ + 1, !.cur = r.cur]
            ELSE [m EXCEPT !.st = "done", !.out = "ok", !.cur = <<>>, !.recs = r.cur]
    /\ UNCHANGED <<indexVars, partDestroyed, arc, aligners, heap, batch, thr>>

\* the engine keeps its contract
ReadMapDone ==
    LET regs == EngineMap(mainRun.part, mainRun.q)
    IN ReadMapReturn(MapReturn(FALSE, Len(regs), regs))

\* the engine reports n registers and returns a null array
ReadMapViolation(n) == ReadMapReturn(MapReturn(TRUE, n, <<>>))

\* Minimap2Aligner::get_header: the dictionary stored in the shared index
GetHeader(a) ==
    /\ MainIdle
    /\ aligners[a].alive
    /\ mainRun' = [IdleRun EXCEPT !.st = "done", !.a = a, !.out = "header",
                                  !.recs = IndexHeader([parts |-> parts, header |-> header])]
    /\ UNCHANGED <<indexVars, partDestroyed, arc, aligners, heap, batch, thr>>

\* the caller takes the result
ReadReturn ==
    /\ mainRun.st = "done"
    /\ mainRun' = IdleRun
    /\ UNCHANGED <<indexVars, partDestroyed, arc, aligners, heap, batch, thr>>

(* ------------------------------------------------------------------ *)
(* Minimap2Aligner::align_batch                                        *)
(* ------------------------------------------------------------------ *)
\* query lists: position i holds a record of content i; at most one of the
\* names is not a plain one
QueryLists(maxLen) ==
    UNION { { [i \in 1..len |-> Query(i, IF i = bad THEN k ELSE "ok")] :
                  bad \in 0..len, k \in NameKinds }
            : len \in 0..maxLen }
PlainList(len) == [i \in 1..len |-> Query(i, "ok")]

\* the call up to the chunks; d is what available_parallelism() returns
\* when it is asked (0: it fails)
BatchStartLateEmptyCheck(a, recs, n, d) ==
    IF n = 0 /\ d = 0
    THEN [IdleBatch EXCEPT !.pc = "done", !.a = a, !.recs = recs, !.outcome = "err"]
    ELSE IF recs = <<>>
    THEN [IdleBatch EXCEPT !.pc = "done", !.a = a, !.n = n, !.outcome = "ok"]
    ELSE LET w == EffectiveThreads(n, d)
         IN [IdleBatch EXCEPT !.pc = "spawn", !.a = a, !.recs = recs, !.n = n,
                              !.avail = d, !.workers = w,
                              !.chunks = Chunks(Len(recs), ChunkSize(Len(recs), w))]

BatchStart(a, recs, n, d) ==
    IF recs = <<>>
    THEN [IdleBatch EXCEPT !.pc = "done", !.a = a, !.n = n, !.outcome = "ok"]
    ELSE IF n = 0 /\ d = 0
    THEN [IdleBatch EXCEPT !.pc = "done", !.a = a, !.recs = recs, !.outcome = "err"]
    ELSE LET w == EffectiveThreads(n, d)
         IN [IdleBatch EXCEPT !.pc = "spawn", !.a = a, !.recs = recs, !.n = n,
                              !.avail = d, !.workers = w,
                              !.chunks = Chunks(Len(recs), ChunkSize(Len(recs), w))]

AlignBatchCall(a, recs, n, d) ==
    /\ MainIdle
    /\ aligners[a].alive
    /\ n # 0 => d = 0
    /\ batch' = BatchStart(a, recs, n, d)
    /\ UNCHANGED <<indexVars, partDestroyed, arc, aligners, heap, thr, mainRun>>

\* one turn of the map closure: clone the Arc and the options, spawn
SpawnWorker ==
    /\ batch.pc = "spawn"
    /\ LET k == Len(thr) + 1
       IN /\ thr' = Append(thr, [st |-> "spawned", ctx |-> NoCtx,
                                 lo |-> batch.chunks[k].lo, hi |-> batch.chunks[k].hi,
                                 qi |-> batch.chunks[k].lo, part |-> 0,
                                 cur |-> <<>>, res |-> <<>>])
          /\ batch' = [batch EXCEPT !.pc = IF k = Len(batch.chunks) THEN "join" ELSE "spawn"]
    /\ arc' = arc + 1
    /\ UNCHANGED <<indexVars, partDestroyed, aligners, heap, mainRun>>

\* a worker's closure ends (return or unwinding): its InnerAligner, if it
\* has one, and its Arc are dropped
Terminate(i, st, res, h, ctx) ==
    /\ thr' = [thr EXCEPT ![i] = [@ EXCEPT !.st = st, !.ctx = NoCtx, !.cur = <<>>,
                                           !.part = 0, !.res = res]]
    /\ heap' = IF ctx = NoCtx THEN h ELSE HeapAfterDrop(h, ctx)
    /\ partDestroyed' = DestroyedAfterRelease(arc, partDestroyed)
    /\ arc' = arc - 1

\* the head of `for record in chunk` for worker state w: the next align_read
\* is entered (up to its first engine call), or the closure returns
Advance(i, w, h) ==
    IF w.qi > w.hi
    THEN Terminate(i, "ok", w.res, h, w.ctx)
    ELSE IF ~NameCstrOk(batch.recs[w.qi])
    THEN Terminate(i, "err", <<>>, h, w.ctx)
    ELSE /\ thr' = [thr EXCEPT ![i] = [w EXCEPT !.st = "update", !.part = 1, !.cur = <<>>]]
         /\ heap' = h
         /\ UNCHANGED <<partDestroyed, arc>>

\* let mut aligner = InnerAligner::new(&opts)?;
WorkerNew(i, eng) ==
    /\ thr[i].st = "spawned"
    /\ LET r == InnerAlignerNew(opts, eng)
       IN /\ MayExplore(heap, r)
          /\ IF r.st = "ok"
             THEN Advance(i, [thr[i] EXCEPT !.ctx = WorkerCtx(CtxAfterNew(heap, r),
                                                              aligners[batch.a].ctx)],
                          HeapAfterNew(heap, r))
             ELSE Terminate(i, "err", <<>>, HeapAfterNew(heap, r), NoCtx)
    /\ UNCHANGED <<indexVars, aligners, batch, mainRun>>

\* mm_mapopt_update returned; mm_map is entered
WorkerUpdateDone(i) ==
    /\ thr[i].st = "update"
    /\ thr' = [thr EXCEPT ![i] = [@ EXCEPT !.st = "map"]]
    /\ UNCHANGED <<indexVars, partDestroyed, arc, aligners, heap, batch, mainRun>>

\* mm_map returned; its registers are translated and freed
WorkerMapDone(i) ==
    /\ thr[i].st = "map"
    /\ LET w == thr[i]
           r == AfterMap(header, batch.recs[w.qi], w.part, w.cur)
       IN IF r.err
          THEN Terminate(i, "err", <<>>, heap, w.ctx)
          ELSE IF r.panic
          THEN Terminate(i, "panic", <<>>, heap, w.ctx)
          ELSE IF w.part < Len(parts)
          THEN /\ thr' = [thr EXCEPT ![i] =
                            [w EXCEPT !.st = "update", !.part = @ + 1, !.cur = r.cur]]
               /\ UNCHANGED <<heap, partDestroyed, arc>>
          ELSE Advance(i, [w EXCEPT !.qi = @ + 1, !.res = Append(@, r.cur)], heap)
    /\ UNCHANGED <<indexVars, aligners, batch, mainRun>>

\* the worker panics inside a mapping call or the translation of its registers
WorkerPanic(i) ==
    /\ thr[i].st = "map"
    /\ Terminate(i, "panic", <<>>, heap, thr[i].ctx)
    /\ UNCHANGED <<indexVars, aligners, batch, mainRun>>

\* handle.join() of the next handle, in spawn order
JoinPrepend(b, w) ==
    [b EXCEPT !.joined = @ + 1,
              !.all = IF w.st = "ok" THEN w.res \o @ ELSE <<>>,
              !.cres = IF w.st # "ok" THEN "err"
                       ELSE IF b.joined + 1 = Len(b.chunks) THEN "ok" ELSE @,
              !.pc = IF w.st # "ok" \/ b.joined + 1 = Len(b.chunks) THEN "wait" ELSE @]

JoinStep(b, w) ==
    [b EXCEPT !.joined = @ + 1,
              !.all = IF w.st = "ok" THEN @ \o w.res ELSE <<>>,
              !.cres = IF w.st # "ok" THEN "err"
                       ELSE IF b.joined + 1 = Len(b.chunks) THEN "ok" ELSE @,
              !.pc = IF w.st # "ok" \/ b.joined + 1 = Len(b.chunks) THEN "wait" ELSE @]

Join ==
    /\ batch.pc = "join"
    /\ thr[batch.joined + 1].st \in Terminated
    /\ batch' = JoinStep(batch, thr[batch.joined + 1])
    /\ UNCHANGED <<indexVars, partDestroyed, arc, aligners, heap, thr, mainRun>>

\* thread::scope returns only when every thread spawned in it has ended,
\* joined or not
ScopeMayExitAfterJoined(b, ts) == \A k \in 1..b.joined : ts[k].st \in Terminated

ScopeMayExit(b, ts) == \A k \in 1..Len(ts) : ts[k].st \in Terminated

\* what thread::scope returns once every spawned thread has ended: the
\* closure's value, unless a thread that was never joined panicked
ScopeOutcome(b, ts) ==
    IF b.cres = "ok" THEN "ok"
    ELSE IF \E k \in (b.joined + 1)..Len(ts) : ts[k].st = "panic" THEN "panic"
    ELSE "err"

ScopeExit ==
    /\ batch.pc = "wait"
    /\ ScopeMayExit(batch, thr)
    /\ LET o == ScopeOutcome(batch, thr)
       IN batch' = [batch EXCEPT !.pc = "done", !.outcome = o, !.all = <<>>,
                                 !.result = IF o = "ok" THEN batch.all ELSE <<>>]
    /\ UNCHANGED <<indexVars, partDestroyed, arc, aligners, heap, thr, mainRun>>

\* align_batch returns to its caller, or unwinds into it
BatchReturn ==
    /\ batch.pc = "done"
    /\ batch' = IF batch.outcome = "panic" THEN [IdleBatch EXCEPT !.pc = "panicked"]
                ELSE IdleBatch
    /\ thr' = <<>>
    /\ UNCHANGED <<indexVars, partDestroyed, arc, aligners, heap, mainRun>>

(* ------------------------------------------------------------------ *)
(* The concurrent model                                                *)
(* ------------------------------------------------------------------ *)
Next ==
    \/ \E a \in 1..MaxAligners, eng \in EngOutcomes : Clone(a, eng)
    \/ \E a \in 1..MaxAligners : DropAligner(a)
    \/ \E a \in 1..MaxAligners, q \in QueryLists(1) \ {<<>>} : ReadCall(a, q[1])
    \/ ReadUpdateDone
    \/ ReadMapDone
    \/ \E a \in 1..MaxAligners : GetHeader(a)
    \/ ReadReturn
    \/ /\ MainIdle
       /\ \E a \in 1..MaxAligners, recs \in QueryLists(MaxQueries), n \in 0..MaxBatchThreads :
             \E d \in (IF n = 0 THEN 0..MaxBatchThreads ELSE {0}) :
                AlignBatchCall(a, recs, n, d)
    \/ SpawnWorker
    \/ \E i \in 1..Len(thr), eng \in EngOutcomes : WorkerNew(i, eng)
    \/ \E i \in 1..Len(thr) : WorkerUpdateDone(i)
    \/ \E i \in 1..Len(thr) : WorkerMapDone(i)
    \/ \E i \in 1..Len(thr) : WorkerPanic(i)
    \/ Join
    \/ ScopeExit
    \/ BatchReturn

Spec == Init /\ [][Next]_vars

(* ------------------------------------------------------------------ *)
(* Single reads against an engine that may break its contract          *)
(* ------------------------------------------------------------------ *)
\* registers the engine may hand back: a plain forward hit, a hit whose
\* mapping quality is the missing value, a hit at i32::MAX, a reverse hit
TestRegs ==
    { Reg(0, 5, 0, 60, NoCigar), Reg(1, 7, 1, MaxU8, NoCigar),
      Reg(1, MaxI32, 0, 30, NoCigar), Reg(1, 9, 1, 30, NoCigar) }

\* what mm_map may store for one part: no array, an array of no registers,
\* an array of registers
MapReturns ==
    { MapReturn(TRUE, 0, <<>>), MapReturn(FALSE, 0, <<>>) }
      \cup UNION { { MapReturn(FALSE, n, regs) : regs \in [1..n -> TestRegs] }
                    : n \in 1..MaxRegs }

\* either build of the library
InitRead ==
    /\ parts = MainParts
    /\ header = ExtractHeader(MainParts)
    /\ loaded = TRUE
    /\ xl = NoXl
    /\ partDestroyed = [p \in 1..Len(MainParts) |-> 0]
    /\ arc = 1
    /\ aligners = [a \in 1..MaxAligners |->
                     IF a = 1 THEN [alive |-> TRUE, ctx |-> [tbuf |-> 1, opts |-> 1]]
                     ELSE [alive |-> FALSE, ctx |-> NoCtx]]
    /\ heap = [tbuf |-> {1}, opts |-> {1}, lostTbuf |-> {}, lostOpts |-> {}]
    /\ batch = IdleBatch
    /\ thr = <<>>
    /\ mainRun = IdleRun
    /\ opts = DefaultOpts
    /\ ld = IdleLoad
    /\ stream = IdleStream
    /\ overflowChecks \in BOOLEAN

NextRead ==
    \/ \E a \in 1..MaxAligners, k \in NameKinds : ReadCall(a, Query(1, k))
    \/ ReadUpdateDone
    \/ ReadMapDone
    \/ mainRun.st = "map" /\ \E ret \in MapReturns : ReadMapReturn(ret)
    \/ \E n \in 1..MaxRegs : ReadMapViolation(n)
    \/ ReadReturn

SpecRead == InitRead /\ [][NextRead]_vars

(* ------------------------------------------------------------------ *)
(* The partition alone: align_batch up to the last spawn, for lists    *)
(* of every length and every thread count                              *)
(* ------------------------------------------------------------------ *)
NextDispatch ==
    \/ /\ MainIdle
       /\ \E len \in 0..MaxLen, n \in 0..MaxThreadArg :
             \E d \in (IF n = 0 THEN 0..MaxDetected ELSE {0}) :
                AlignBatchCall(1, PlainList(len), n, d)
    \/ SpawnWorker
    \/ BatchReturn

SpecDispatch == Init /\ [][NextDispatch]_vars

(* ------------------------------------------------------------------ *)
(* Any options: the aligner, its clones and one-query batches          *)
(* ------------------------------------------------------------------ *)
InitAnyOpts ==
    /\ parts = MainParts
    /\ header = ExtractHeader(MainParts)
    /\ loaded = TRUE
    /\ xl = NoXl
    /\ partDestroyed = [p \in 1..Len(MainParts) |-> 0]
    /\ arc = 1
    /\ aligners = [a \in 1..MaxAligners |->
                     IF a = 1 THEN [alive |-> TRUE, ctx |-> [tbuf |-> 1, opts |-> 1]]
                     ELSE [alive |-> FALSE, ctx |-> NoCtx]]
    /\ heap = [tbuf |-> {1}, opts |-> {1}, lostTbuf |-> {}, lostOpts |-> {}]
    /\ batch = IdleBatch
    /\ thr = <<>>
    /\ mainRun = IdleRun
    /\ opts \in AllOpts
    /\ ld = IdleLoad
    /\ stream = IdleStream
    /\ overflowChecks = FALSE

NextCtx ==
    \/ \E a \in 1..MaxAligners, eng \in EngOutcomes : Clone(a, eng)
    \/ \E a \in 1..MaxAligners : DropAligner(a)
    \/ \E a \in 1..MaxAligners : AlignBatchCall(a, PlainList(1), 1, 0)
    \/ SpawnWorker
    \/ \E i \in 1..Len(thr), eng \in EngOutcomes : WorkerNew(i, eng)
    \/ \E i \in 1..Len(thr) : WorkerUpdateDone(i)
    \/ \E i \in 1..Len(thr) : WorkerMapDone(i)
    \/ Join
    \/ ScopeExit
    \/ BatchReturn

SpecCtx == InitAnyOpts /\ [][NextCtx]_vars

(* ------------------------------------------------------------------ *)
(* The index alone: load builds the dictionary of what the engine      *)
(* read, and registers of its parts are translated                     *)
(* ------------------------------------------------------------------ *)
SeqsUpTo(S, n) == UNION { [1..k -> S] : k \in 1..n }

\* the entries es read as consecutive parts, a new part after each cut
PartsOf(es, cuts) ==
    LET starts == {1} \cup {c + 1 : c \in cuts}
        nth(k) == CHOOSE s \in starts : Cardinality({t \in starts : t < s}) = k - 1
        endOf(s) == IF \E t \in starts : t > s
                    THEN (CHOOSE t \in starts : t > s /\ \A u \in starts : u > s => t <= u) - 1
                    ELSE Len(es)
    IN [k \in 1..Cardinality(starts) |-> SubSeq(es, nth(k), endOf(nth(k)))]

\* what mm_idx_reader_read may have returned, part by part
IndexConfigs ==
    UNION { { PartsOf(es, cuts) :
                cuts \in { c \in SUBSET (1..(Len(es) - 1)) : Cardinality(c) < MaxParts } }
            : es \in SeqsUpTo(SeqEntries, MaxSeqs) }

\* registers mm_map may return for a part: rid is the index, in its seq array,
\* of a sequence that has a name and bases
RegsOfPart(es) ==
    { Reg(rid, rs, rev, 60, NoCigar) :
        rid \in { i - 1 : i \in { j \in 1..Len(es) : ~es[j].null /\ es[j].len > 0 } },
        rs \in {-1, 0}, rev \in {0, 1} }

InitIndex ==
    /\ parts \in IndexConfigs
    /\ header = <<>>
    /\ loaded = FALSE
    /\ xl = NoXl
    /\ partDestroyed = [p \in 1..Len(parts) |-> 0]
    /\ arc = 0
    /\ aligners = [a \in 1..MaxAligners |-> [alive |-> FALSE, ctx |-> NoCtx]]
    /\ heap = [tbuf |-> {}, opts |-> {}, lostTbuf |-> {}, lostOpts |-> {}]
    /\ batch = IdleBatch
    /\ thr = <<>>
    /\ mainRun = IdleRun
    /\ opts = DefaultOpts
    /\ ld = IdleLoad
    /\ stream = IdleStream
    /\ overflowChecks = FALSE

\* Minimap2Index::load once the parts are read: the header is extracted
LoadHeader ==
    /\ ~loaded
    /\ header' = ExtractHeader(parts)
    /\ loaded' = TRUE
    /\ UNCHANGED <<parts, xl, opts, partDestroyed, arc, aligners, heap, batch, thr,
                   mainRun, ld, stream, overflowChecks>>

\* align_read's register loop, for one register of part p
TranslateReg(p, reg) ==
    /\ loaded
    /\ xl' = [part |-> p, reg |-> reg, rec |-> RegToSamRecord(header, 1, reg)]
    /\ UNCHANGED <<parts, header, loaded, opts, partDestroyed, arc, aligners, heap,
                   batch, thr, mainRun, ld, stream, overflowChecks>>

NextIndex ==
    \/ LoadHeader
    \/ \E p \in 1..Len(parts) : \E reg \in RegsOfPart(parts[p]) : TranslateReg(p, reg)

SpecIndex == InitIndex /\ [][NextIndex]_vars

(* ------------------------------------------------------------------ *)
(* One register with alignment detail, translated                      *)
(* ------------------------------------------------------------------ *)
\* packed CIGAR values (length << 4 | opcode), among them a long one, 2^30 - 1
PackedValues ==
    { (len * 16) + op : op \in 0..15, len \in 0..MaxOpLen } \cup {1073741823}
SomeValues == {(10 * 16) + 0, (4 * 16) + 4, (1 * 16) + 6}

\* reg.p: null, or the cigar array of the mm_extra_t
CigarArrays ==
    {NoCigar, <<>>} \cup { <<v>> : v \in PackedValues }
    \cup UNION { [1..k -> SomeValues] : k \in 2..MaxCigar }

InitCigar ==
    /\ parts = MainParts
    /\ header = ExtractHeader(MainParts)
    /\ loaded = TRUE
    /\ \E rev \in {0, 1}, p \in CigarArrays :
          xl = [part |-> 0, reg |-> Reg(0, 0, rev, 60, p), rec |-> <<>>]
    /\ partDestroyed = [p \in 1..Len(MainParts) |-> 0]
    /\ arc = 1
    /\ aligners = [a \in 1..MaxAligners |->
                     IF a = 1 THEN [alive |-> TRUE, ctx |-> [tbuf |-> 1, opts |-> 1]]
                     ELSE [alive |-> FALSE, ctx |-> NoCtx]]
    /\ heap = [tbuf |-> {1}, opts |-> {1}, lostTbuf |-> {}, lostOpts |-> {}]
    /\ batch = IdleBatch
    /\ thr = <<>>
    /\ mainRun = IdleRun
    /\ opts = DefaultOpts
    /\ ld = IdleLoad
    /\ stream = IdleStream
    /\ overflowChecks = FALSE

\* the register mm_map returned for part 1 is translated
TranslateReturned ==
    /\ xl.part = 0
    /\ TranslateReg(1, xl.reg)

SpecCigar == InitCigar /\ [][TranslateReturned]_vars

(* ------------------------------------------------------------------ *)
(* One register of any quality and reference start, translated         *)
(* ------------------------------------------------------------------ *)
\* reg.mapq() is an 8-bit field; reg.rs is an i32
RegInputs ==
    { Reg(0, rs, 0, mapq, NoCigar) :
        rs \in {(-MaxI32) - 1, -1, 0, 1, MaxI32 - 1, MaxI32}, mapq \in 0..MaxU8 }

InitReg ==
    /\ parts = MainParts
    /\ header = ExtractHeader(MainParts)
    /\ loaded = TRUE
    /\ \E reg \in RegInputs : xl = [part |-> 0, reg |-> reg, rec |-> <<>>]
    /\ partDestroyed = [p \in 1..Len(MainParts) |-> 0]
    /\ arc = 1
    /\ aligners = [a \in 1..MaxAligners |->
                     IF a = 1 THEN [alive |-> TRUE, ctx |-> [tbuf |-> 1, opts |-> 1]]
                     ELSE [alive |-> FALSE, ctx |-> NoCtx]]
    /\ heap = [tbuf |-> {1}, opts |-> {1}, lostTbuf |-> {}, lostOpts |-> {}]
    /\ batch = IdleBatch
    /\ thr = <<>>
    /\ mainRun = IdleRun
    /\ opts = DefaultOpts
    /\ ld = IdleLoad
    /\ stream = IdleStream
    /\ overflowChecks \in BOOLEAN

SpecReg == InitReg /\ [][TranslateReturned]_vars

(* ------------------------------------------------------------------ *)
(* One register of any reference index, translated against the        *)
(* dictionary of any index                                             *)
(* ------------------------------------------------------------------ *)
\* reg.rid is an i32: negative, inside the dictionary, just past it, far past
RidInputs ==
    { Reg(rid, 0, 0, mapq, NoCigar) :
        rid \in {(-MaxI32) - 1, -1, MaxI32} \cup 0..(MaxSeqs + 1),
        mapq \in {60, MaxU8} }

InitRid ==
    /\ parts \in IndexConfigs
    /\ header = ExtractHeader(parts)
    /\ loaded = TRUE
    /\ \E reg \in RidInputs : xl = [part |-> 0, reg |-> reg, rec |-> <<>>]
    /\ partDestroyed = [p \in 1..Len(parts) |-> 0]
    /\ arc = 1
    /\ aligners = [a \in 1..MaxAligners |->
                     IF a = 1 THEN [alive |-> TRUE, ctx |-> [tbuf |-> 1, opts |-> 1]]
                     ELSE [alive |-> FALSE, ctx |-> NoCtx]]
    /\ heap = [tbuf |-> {1}, opts |-> {1}, lostTbuf |-> {}, lostOpts |-> {}]
    /\ batch = IdleBatch
    /\ thr = <<>>
    /\ mainRun = IdleRun
    /\ opts = DefaultOpts
    /\ ld = IdleLoad
    /\ stream = IdleStream
    /\ overflowChecks = FALSE

SpecRid == InitRid /\ [][TranslateReturned]_vars

(* ------------------------------------------------------------------ *)
(* Minimap2Index::load and Minimap2Aligner::new                        *)
(* ------------------------------------------------------------------ *)
\* what the filesystem and the engine answer during one load: whether the
\* path exists, the code of mm_set_opt(preset), whether mm_idx_reader_open
\* returns a reader, and the parts mm_idx_reader_read returns before null
LoadEnv(exists, preset, reader, file) ==
    [exists |-> exists, preset |-> preset, reader |-> reader, file |-> file]

LoadSeqs == {SeqEntry(FALSE, Name1, 1), SeqEntry(FALSE, Name2, 1)}
LoadFiles ==
    {<<>>} \cup
    UNION { { PartsOf(es, cuts) :
                cuts \in { c \in SUBSET (1..(Len(es) - 1)) : Cardinality(c) < MaxParts } }
            : es \in SeqsUpTo(LoadSeqs, MaxSeqs) }

\* a path that does not exist cannot be opened; a reader is needed to read
LoadEnvs ==
    { LoadEnv(FALSE, c, FALSE, <<>>) : c \in {0, -1} }
    \cup { LoadEnv(TRUE, c, FALSE, <<>>) : c \in {0, -1} }
    \cup { LoadEnv(TRUE, c, TRUE, f) : c \in {0, -1}, f \in LoadFiles }

\* the options load is tried with
LoadOpts == {DefaultOpts, [DefaultOpts EXCEPT !.preset = "map-ont"]}

\* if !path.exists() { bail!(..) }
PathExistsUnchecked(env) == TRUE

PathExists(env) == env.exists

\* mm_set_opt(NULL), then mm_set_opt(preset) when a preset is given
LoadSetOpt(o, env) ==
    [ calls |-> <<"mm_set_opt">>
                \o (IF o.preset # NoPreset THEN <<"mm_set_opt_preset">> ELSE <<>>),
      err |-> o.preset # NoPreset /\ env.preset < 0 ]

\* loop { mm_idx_reader_read } until it returns null
ReadParts(env) ==
    [ parts |-> env.file,
      calls |-> [i \in 1..(Len(env.file) + 1) |-> "mm_idx_reader_read"] ]

\* if parts.is_empty() { bail!(..) }
PartsEmptyUnchecked(ps) == FALSE

PartsEmpty(ps) == ps = <<>>

LoadFail(out, calls) == [out |-> out, calls |-> calls, parts |-> <<>>, header |-> <<>>]

Load(o, env) ==
    IF ~PathExists(env) THEN LoadFail("path", <<>>)
    ELSE LET so == LoadSetOpt(o, env)
         IN IF so.err THEN LoadFail("preset", so.calls)
            ELSE IF ~env.reader
            THEN LoadFail("open", so.calls \o <<"mm_idx_reader_open">>)
            ELSE LET rp == ReadParts(env)
                     calls == so.calls \o <<"mm_idx_reader_open">> \o rp.calls
                              \o <<"mm_idx_reader_close">>
                 IN IF PartsEmpty(rp.parts) THEN LoadFail("empty", calls)
                    ELSE [out |-> "ok", calls |-> calls, parts |-> rp.parts,
                          header |-> ExtractHeader(rp.parts)]

InitLoad ==
    /\ parts = <<>>
    /\ header = <<>>
    /\ loaded = FALSE
    /\ xl = NoXl
    /\ partDestroyed = <<>>
    /\ arc = 0
    /\ aligners = [a \in 1..MaxAligners |-> [alive |-> FALSE, ctx |-> NoCtx]]
    /\ heap = [tbuf |-> {}, opts |-> {}, lostTbuf |-> {}, lostOpts |-> {}]
    /\ batch = IdleBatch
    /\ thr = <<>>
    /\ mainRun = IdleRun
    /\ opts \in LoadOpts
    /\ ld = IdleLoad
    /\ stream = IdleStream
    /\ overflowChecks = FALSE

\* Minimap2Aligner::new(opts): load, then InnerAligner::new; when the latter
\* fails the index just loaded is dropped, which destroys its parts
NewAligner(env, eng, fn, n) ==
    /\ ld.pc = "idle"
    /\ LET r == Load(opts, env)
           c == InnerAlignerNew(opts, eng)
       IN IF r.out # "ok"
          THEN /\ ld' = [IdleLoad EXCEPT !.pc = "done", !.env = env, !.stage = "load",
                                         !.out = r.out, !.calls = r.calls,
                                         !.fn = fn, !.threads = n, !.given = opts]
               /\ UNCHANGED <<parts, header, loaded, partDestroyed, arc, aligners, heap>>
          ELSE /\ MayExplore(heap, c)
               /\ ld' = [IdleLoad EXCEPT !.pc = "done", !.env = env, !.eng = eng,
                                         !.stage = "context", !.calls = r.calls,
                                         !.out = IF c.st = "ok" THEN "ok" ELSE c.err,
                                         !.fn = fn, !.threads = n, !.given = opts]
               /\ parts' = r.parts
               /\ header' = r.header
               /\ loaded' = (c.st = "ok")
               /\ partDestroyed' = [p \in 1..Len(r.parts) |-> IF c.st = "ok" THEN 0 ELSE 1]
               /\ arc' = IF c.st = "ok" THEN 1 ELSE 0
               /\ heap' = HeapAfterNew(heap, c)
               /\ aligners' = IF c.st = "ok"
                              THEN [aligners EXCEPT
                                      ![1] = [alive |-> TRUE, ctx |-> CtxAfterNew(heap, c)]]
                              ELSE aligners
    /\ UNCHANGED <<xl, batch, thr, mainRun, stream, overflowChecks>>

New(env, eng) ==
    /\ NewAligner(env, eng, "new", 0)
    /\ UNCHANGED opts

\* Minimap2Aligner::with_threads(opts, num_threads): new(opts)?, then the
\* annotation is pushed on the aligner's extra_params
WithThreads(env, eng, n) ==
    /\ NewAligner(env, eng, "with_threads", n)
    /\ opts' = IF ld'.out = "ok"
               THEN [opts EXCEPT !.extra_params = Append(@, ThreadsParam(n))]
               ELSE opts

NextLoad ==
    \/ \E env \in LoadEnvs, eng \in EngOutcomes : New(env, eng)
    \/ \E a \in 1..MaxAligners : GetHeader(a)
    \/ ReadReturn
    \/ \E a \in 1..MaxAligners : DropAligner(a)

SpecLoad == InitLoad /\ [][NextLoad]_vars

\* an aligner built by with_threads, then batch calls on it up to the last
\* spawn, for every thread count at construction and at the call
NextThreads ==
    \/ \E env \in LoadEnvs, eng \in EngOutcomes, n \in 0..MaxBatchThreads :
          WithThreads(env, eng, n)
    \/ /\ MainIdle
       /\ \E len \in 0..MaxQueries, n \in 0..MaxBatchThreads :
             \E d \in (IF n = 0 THEN 0..MaxBatchThreads ELSE {0}) :
                AlignBatchCall(1, PlainList(len), n, d)
    \/ SpawnWorker
    \/ BatchReturn

SpecThreads == InitLoad /\ [][NextThreads]_vars

(* ------------------------------------------------------------------ *)
(* align_read as a function of the query: what one aligner returns     *)
(* ------------------------------------------------------------------ *)
RECURSIVE ReadFrom(_, _, _, _, _)
ReadFrom(hdr, q, part, nparts, cur) ==
    IF part > nparts THEN [err |-> FALSE, recs |-> cur]
    ELSE LET r == AfterMap(hdr, q, part, cur)
         IN IF r.err THEN [err |-> TRUE, recs |-> <<>>]
            ELSE ReadFrom(hdr, q, part + 1, nparts, r.cur)

AlignRead(hdr, q, nparts) ==
    IF ~NameCstrOk(q) THEN [err |-> TRUE, recs |-> <<>>]
    ELSE ReadFrom(hdr, q, 1, nparts, <<>>)

(* ------------------------------------------------------------------ *)
(* BatchAligner::process_stream                                        *)
(* ------------------------------------------------------------------ *)
notStream == <<parts, header, loaded, xl, opts, ld, partDestroyed, arc, aligners, heap,
               batch, thr, mainRun, overflowChecks>>

\* what align_batch returns for a batch when none of its workers fails
BatchResults(hdr, recs, nparts) ==
    [i \in 1..Len(recs) |-> AlignRead(hdr, recs[i], nparts).recs]

\* if batch.len() >= self.config.batch_size
BatchFullStrict(len, size) == len > size

BatchFull(len, size) == len >= size

\* the call, up to the head of `for record in records`
ProcessStream(input, size) ==
    /\ MainIdle
    /\ stream.pc = "idle"
    /\ aligners[1].alive
    /\ stream' = [IdleStream EXCEPT !.pc = "loop", !.input = input, !.size = size]
    /\ UNCHANGED notStream

\* one turn of the loop up to the batch call, or the end of the iterator
StreamNext ==
    /\ stream.pc = "loop"
    /\ stream' =
         IF stream.pos < Len(stream.input)
         THEN LET b == Append(stream.buf, stream.input[stream.pos + 1])
              IN [stream EXCEPT !.pos = @ + 1, !.buf = b,
                                !.pc = IF BatchFull(Len(b), stream.size)
                                       THEN "batch" ELSE "loop"]
         ELSE IF stream.buf # <<>> THEN [stream EXCEPT !.pc = "batch"]
         ELSE [stream EXCEPT !.pc = "done", !.out = "ok"]
    /\ UNCHANGED notStream

\* self.process_batch(&batch)? returned res
StreamBatch(res) ==
    /\ stream.pc = "batch"
    /\ stream' =
         IF res = "ok"
         THEN [stream EXCEPT !.pc = "callback",
                             !.sizes = Append(@, Len(stream.buf)),
                             !.results = BatchResults(header, stream.buf, Len(parts))]
         ELSE [stream EXCEPT !.pc = "done", !.out = "batch failed",
                             !.sizes = Append(@, Len(stream.buf))]
    /\ UNCHANGED notStream

\* callback(result)? returned res; after the last result, batch.clear()
StreamCallback(res) ==
    /\ stream.pc = "callback"
    /\ LET given == Append(stream.given, Head(stream.results))
           rest == Tail(stream.results)
       IN stream' =
            IF res # "ok"
            THEN [stream EXCEPT !.pc = "done", !.out = "callback failed",
                                !.given = given, !.results = <<>>]
            ELSE IF rest # <<>>
            THEN [stream EXCEPT !.given = given, !.results = rest]
            ELSE IF stream.pos < Len(stream.input)
            THEN [stream EXCEPT !.given = given, !.results = <<>>, !.buf = <<>>,
                                !.pc = "loop"]
            ELSE [stream EXCEPT !.given = given, !.results = <<>>, !.buf = <<>>,
                                !.pc = "done", !.out = "ok"]
    /\ UNCHANGED notStream

\* process_stream returns to its caller
StreamReturn ==
    /\ stream.pc = "done"
    /\ stream' = IdleStream
    /\ UNCHANGED notStream

NextStream ==
    \/ \E len \in 0..MaxStream, size \in 0..MaxBatchSize :
          ProcessStream(PlainList(len), size)
    \/ StreamNext
    \/ \E res \in {"ok", "err"} : StreamBatch(res)
    \/ \E res \in {"ok", "err"} : StreamCallback(res)
    \/ StreamReturn

SpecStream == Init /\ [][NextStream]_vars

(* ================================================================== *)
(* Properties                                                          *)
(* ================================================================== *)
Failed(w) == w.st \in {"err", "panic"}
Running(w) == w.st \notin Terminated

\* C1: when workers were spawned and all of them succeeded, align_batch
\* returns one result list per query, and the list at position i is the
\* result of aligning queries[i], in every order the workers run and finish.
C1_InputOrder ==
    (batch.pc = "done" /\ thr # <<>> /\ \A k \in 1..Len(thr) : thr[k].st = "ok")
    => /\ batch.outcome = "ok"
       /\ Len(batch.result) = Len(batch.recs)
       /\ \A i \in 1..Len(batch.recs) :
             batch.result[i] = AlignRead(header, batch.recs[i], Len(parts)).recs

C1_Witness ==
    /\ batch.pc = "done"
    /\ batch.outcome = "ok"
    /\ Len(thr) >= 2
    /\ Len(batch.result) = 3
    /\ batch.result[1] # batch.result[3]

\* C2: if any worker of align_batch failed (an error from its context
\* construction or from an alignment, or a panic), align_batch returns an
\* error, and no result list.
C2_FailFast ==
    (batch.pc = "done" /\ \E k \in 1..Len(thr) : Failed(thr[k]))
    => batch.outcome = "err" /\ batch.result = <<>>

\* C3: every context is used by at most one thread at a time: the contexts of
\* live aligners and workers are pairwise disjoint (each worker constructed
\* its own), and no two engine calls that run at the same time use the same
\* thread buffer or the same mapping-options block.
CtxDisjoint(c1, c2) == c1.tbuf # c2.tbuf /\ c1.opts # c2.opts

C3_ContextExclusive ==
    /\ \A i, j \in 1..Len(thr) :
          (i # j /\ thr[i].st \in InCall /\ thr[j].st \in InCall)
          => CtxDisjoint(thr[i].ctx, thr[j].ctx)
    /\ \A i \in 1..Len(thr), a \in 1..MaxAligners :
          (thr[i].ctx # NoCtx /\ aligners[a].alive)
          => CtxDisjoint(thr[i].ctx, aligners[a].ctx)
    /\ \A a, b \in 1..MaxAligners :
          (a # b /\ aligners[a].alive /\ aligners[b].alive)
          => CtxDisjoint(aligners[a].ctx, aligners[b].ctx)
    /\ \A i \in 1..Len(thr) :
          thr[i].st \in InCall
          => thr[i].ctx.tbuf \in heap.tbuf /\ thr[i].ctx.opts \in heap.opts
    /\ mainRun.st \in InCall
          => /\ aligners[mainRun.a].ctx.tbuf \in heap.tbuf
             /\ \A i \in 1..Len(thr) : thr[i].st \notin InCall

C3_Witness ==
    /\ \E a, b \in 1..MaxAligners : a # b /\ aligners[a].alive /\ aligners[b].alive
    /\ \E i, j \in 1..Len(thr) : i # j /\ thr[i].st = "map" /\ thr[j].st = "map"

\* C4: the parts of the index are destroyed only when its last holder (an
\* aligner or an in-flight batch worker) has released it, each part is
\* destroyed at most once and then all of them are, and no engine call runs
\* on a destroyed part.
Holders ==
    Cardinality({a \in 1..MaxAligners : aligners[a].alive})
    + Cardinality({i \in 1..Len(thr) : Running(thr[i])})

C4_IndexLifetime ==
    /\ arc = Holders
    /\ \A p \in 1..Len(parts) : partDestroyed[p] = (IF arc = 0 THEN 1 ELSE 0)
    /\ \A i \in 1..Len(thr) :
          thr[i].st \in InCall => partDestroyed[thr[i].part] = 0
    /\ mainRun.st \in InCall => partDestroyed[mainRun.part] = 0

C4_Witness ==
    /\ arc = 0
    /\ \A p \in 1..Len(parts) : partDestroyed[p] = 1
    /\ \A a \in 1..MaxAligners : ~aligners[a].alive

\* C5: for a single-part index, a record that has a reference id names, through
\* the dictionary entry at that id, the reference sequence that the register's
\* reference index denotes in the part.
C5_RefIdNamesTarget ==
    (xl.part # 0 /\ Len(parts) = 1 /\ xl.rec.ok /\ xl.rec.rid # NoRid)
    => header[xl.rec.rid + 1].name = parts[xl.part][xl.reg.rid + 1].name

\* C6 (as claimed): the dictionary has exactly one entry per distinct name among
\* the entries with a non-null name and a non-zero length, with the largest
\* length seen for the name, in ascending name order.
AllEntries == { Flatten(parts)[i] : i \in 1..Len(Flatten(parts)) }
Named == { e \in AllEntries : ~e.null /\ e.len # 0 }
NamedUtf8 == { e \in Named : IsUtf8(e.name) }
LongestOf(E, name) ==
    CHOOSE n \in {e.len : e \in {x \in E : x.name = name}} :
        \A e \in E : e.name = name => e.len <= n

DictionaryOf(E) ==
    /\ {header[i].name : i \in 1..Len(header)} = {e.name : e \in E}
    /\ \A i, j \in 1..Len(header) : i < j => LexLess(header[i].name, header[j].name)
    /\ \A i \in 1..Len(header) : header[i].len = LongestOf(E, header[i].name)

C6_DictionaryAsClaimed == loaded => DictionaryOf(Named)

\* C6 (amended): ... among the entries with a non-null name that is valid
\* UTF-8 and a non-zero length ...
C6_Dictionary == loaded => DictionaryOf(NamedUtf8)

C6_Witness ==
    /\ loaded
    /\ Len(parts) = 2
    /\ header = <<[name |-> Name1, len |-> 2], [name |-> Name2, len |-> 1]>>
    /\ parts[1][1].name = Name2
    /\ \E e \in AllEntries : e.name = Name1 /\ e.len = 1

\* C7: when InnerAligner::new fails, nothing it allocated is still allocated.
C7_NoLeakOnFailure == heap.lostTbuf = {} /\ heap.lostOpts = {}

\* C8: a returned record without a reference id is an unmapped record: its
\* flags are 4 and it has no start position.
C8_UnmappedRecord ==
    (xl.part # 0 /\ xl.rec.ok /\ xl.rec.rid = NoRid)
    => xl.rec.flags = UNMAPPED /\ xl.rec.start = NoPos

\* C9: the chunks are contiguous, non-overlapping and non-empty and cover the
\* list in order; all but the last hold ceil(len/w) queries and the last at
\* most that; there are at most w <= 32 of them; one worker is spawned per chunk.
CeilDiv(a, b) == CHOOSE c \in 0..a : c * b >= a /\ (c - 1) * b < a

C9_Chunks ==
    batch.pc \in {"spawn", "join", "wait"}
    => LET cs == batch.chunks
           len == Len(batch.recs)
           size == CeilDiv(len, batch.workers)
       IN /\ cs # <<>>
          /\ cs[1].lo = 1
          /\ cs[Len(cs)].hi = len
          /\ \A k \in 1..Len(cs) : cs[k].lo <= cs[k].hi
          /\ \A k \in 1..(Len(cs) - 1) :
                cs[k + 1].lo = cs[k].hi + 1 /\ cs[k].hi - cs[k].lo + 1 = size
          /\ cs[Len(cs)].hi - cs[Len(cs)].lo + 1 <= size
          /\ Len(cs) <= batch.workers
          /\ batch.workers <= 32
          /\ Len(thr) <= Len(cs)
          /\ batch.pc # "spawn" => Len(thr) = Len(cs)
          /\ \A k \in 1..Len(thr) : thr[k].lo = cs[k].lo /\ thr[k].hi = cs[k].hi

C9_Witness ==
    /\ batch.pc = "join"
    /\ batch.workers = 32
    /\ Len(thr) = 17
    /\ thr[17].lo = thr[17].hi
    /\ thr[16].lo < thr[16].hi

\* C10: the effective worker count is min(max(detected, 1), 16) when
\* thread_count is 0 and min(max(thread_count, 1), 32) otherwise.
C10_WorkerCount ==
    batch.pc \in {"spawn", "join", "wait"}
    => batch.workers = (IF batch.n = 0 THEN Min(Max(batch.avail, 1), 16)
                        ELSE Min(Max(batch.n, 1), 32))

C10_Witness ==
    /\ batch.pc = "spawn"
    /\ batch.n = 0
    /\ batch.avail > 16
    /\ batch.workers = 16

\* C11: align_batch on an empty query list returns an empty result for every
\* thread_count (also 0 with no detectable parallelism), and the call creates
\* no context, spawns no worker and takes no further hold on the index.
EmptyBatchCall ==
    batch.pc = "idle" /\ batch'.pc \notin {"idle", "panicked"} /\ batch'.recs = <<>>

C11_EmptyBatch ==
    [][EmptyBatchCall =>
         /\ batch'.pc = "done" /\ batch'.outcome = "ok" /\ batch'.result = <<>>
         /\ batch'.chunks = <<>>
         /\ thr' = <<>> /\ thr = <<>>
         /\ heap' = heap /\ arc' = arc /\ aligners' = aligners]_vars

C11_Witness ==
    /\ batch.pc = "done"
    /\ batch.recs = <<>>
    /\ batch.outcome = "ok"
    /\ batch.n = 33
    /\ thr = <<>>

\* C12: no step of align_read or align_batch, on the calling thread or in a
\* worker, changes the part list or the dictionary of the index, and no part
\* is destroyed while an aligner holds the index; get_header returns the
\* dictionary built by load and makes no engine call: it completes in the one
\* step, entering neither mm_mapopt_update nor mm_map, and touches no context.
GetHeaderStep == mainRun.out # "header" /\ mainRun'.out = "header"

C12_IndexUnchanged ==
    [][/\ parts' = parts
       /\ header' = header
       /\ (\E a \in 1..MaxAligners : aligners'[a].alive)
             => \A p \in 1..Len(parts) : partDestroyed'[p] = 0
       /\ GetHeaderStep =>
             /\ mainRun.st = "idle" /\ mainRun'.st = "done"
             /\ mainRun'.recs = ExtractHeader(parts)
             /\ UNCHANGED <<heap, thr, batch, arc, partDestroyed, aligners>>]_vars

C12_Witness ==
    /\ mainRun.st = "done"
    /\ mainRun.out = "header"
    /\ mainRun.a = 1
    /\ mainRun.recs = <<[name |-> Name1, len |-> 2], [name |-> Name2, len |-> 1]>>
    /\ parts = MainParts

\* C18: a clone has a context of its own (thread buffer and options block
\* distinct from those of every other live aligner, and allocated), it holds
\* the same index (one more holder, no second index), and get_header on the
\* clone and on the original returns the same dictionary, whatever was
\* aligned before.
C18_CloneOwnContext ==
    /\ \A a, b \in 1..MaxAligners :
          (a # b /\ aligners[a].alive /\ aligners[b].alive)
          => CtxDisjoint(aligners[a].ctx, aligners[b].ctx)
    /\ \A a \in 1..MaxAligners :
          aligners[a].alive
          => aligners[a].ctx.tbuf \in heap.tbuf /\ aligners[a].ctx.opts \in heap.opts
    /\ arc >= Cardinality({a \in 1..MaxAligners : aligners[a].alive})
    /\ (mainRun.out = "header" /\ mainRun.a \in 1..MaxAligners)
          => mainRun.recs = ExtractHeader(MainParts)

C18_Witness ==
    /\ aligners[1].alive /\ aligners[2].alive
    /\ aligners[1].ctx.tbuf # aligners[2].ctx.tbuf
    /\ mainRun.out = "header"
    /\ mainRun.a = 2
    /\ mainRun.recs = ExtractHeader(MainParts)

\* C13: when the path does not exist, new / load fails with the path error and
\* no engine call was made, and there is no index and no aligner.
C13_PathNotFound ==
    (ld.pc = "done" /\ ~ld.env.exists)
    => /\ ld.out = "path"
       /\ ld.stage = "load"
       /\ ld.calls = <<>>
       /\ ~loaded /\ parts = <<>>
       /\ \A a \in 1..MaxAligners : ~aligners[a].alive

C13_Witness ==
    /\ ld.pc = "done"
    /\ ~ld.env.exists
    /\ ld.out = "path"
    /\ opts.preset # NoPreset

\* C14: load returns an index only if at least one part was read: when the
\* first mm_idx_reader_read returns null, load fails with the read/build
\* error (after closing the reader), and every index an aligner holds has a
\* non-empty part list.
C14_NonEmptyIndex ==
    /\ (ld.pc = "done" /\ ld.env.exists /\ ld.env.reader /\ ld.env.file = <<>>
          /\ ~(opts.preset # NoPreset /\ ld.env.preset < 0))
       => /\ ld.out = "empty"
          /\ ld.stage = "load"
          /\ ld.calls[Len(ld.calls)] = "mm_idx_reader_close"
          /\ Cardinality({i \in 1..Len(ld.calls) : ld.calls[i] = "mm_idx_reader_read"}) = 1
    /\ ld.out = "empty" => ~loaded /\ \A a \in 1..MaxAligners : ~aligners[a].alive
    /\ (loaded \/ \E a \in 1..MaxAligners : aligners[a].alive) => Len(parts) >= 1
    /\ (ld.pc = "done" /\ ld.stage = "context") => Len(parts) >= 1

C14_Witness ==
    /\ ld.pc = "done"
    /\ ld.env.file = <<>>
    /\ ld.env.reader
    /\ ld.out = "empty"

\* C15: when a preset is given and mm_set_opt returns a negative code for it,
\* load fails with the unknown-preset error and there is no index; when
\* InnerAligner::new reaches the call and it returns a negative code, the
\* construction fails with the unknown-preset error and there is no context
\* (no aligner; the index loaded for it is dropped).
C15_UnknownPreset ==
    /\ (ld.pc = "done" /\ opts.preset # NoPreset /\ ld.env.exists /\ ld.env.preset < 0)
       => /\ ld.out = "preset" /\ ld.stage = "load"
          /\ ~loaded /\ parts = <<>>
          /\ \A a \in 1..MaxAligners : ~aligners[a].alive
    /\ (ld.pc = "done" /\ ld.stage = "context" /\ opts.preset # NoPreset
          /\ ld.eng.tbuf /\ ld.eng.malloc /\ ld.eng.preset < 0)
       => /\ ld.out = "preset"
          /\ ~loaded
          /\ \A a \in 1..MaxAligners : ~aligners[a].alive
          /\ \A p \in 1..Len(parts) : partDestroyed[p] = 1

C15_Witness ==
    /\ ld.pc = "done"
    /\ ld.stage = "context"
    /\ ld.out = "preset"
    /\ ld.eng.preset < 0
    /\ Len(parts) = 2

\* C16: the reverse-complement bit (16) of a produced record is set if and
\* only if the register's reverse indicator is non-zero.
C16_ReverseFlag ==
    (xl.part # 0 /\ xl.rec.ok)
    => (((xl.rec.flags \div 16) % 2 = 1) <=> (xl.reg.rev # 0))

C16_Witness ==
    /\ xl.part # 0
    /\ xl.rec.ok
    /\ xl.reg.rev = 1
    /\ xl.rec.flags = 16
    /\ xl.rec.rid # NoRid

\* C17: the CIGAR of a produced record is empty when the register has no
\* alignment detail; otherwise it has one operation per packed value, in
\* order, of length v >> 4 and of the kind that v & 15 selects: 0 Match,
\* 1 Insertion, 2 Deletion, 3 Skip, 4 SoftClip, 5 HardClip, 7 SequenceMatch,
\* 8 SequenceMismatch, and Match for 6 and 9..15.
KindTable ==
    [op \in 0..15 |->
       IF op = 1 THEN "Insertion" ELSE IF op = 2 THEN "Deletion"
       ELSE IF op = 3 THEN "Skip" ELSE IF op = 4 THEN "SoftClip"
       ELSE IF op = 5 THEN "HardClip" ELSE IF op = 7 THEN "SequenceMatch"
       ELSE IF op = 8 THEN "SequenceMismatch" ELSE "Match"]

C17_CigarDecode ==
    (xl.part # 0 /\ xl.rec.ok)
    => IF xl.reg.p = NoCigar THEN xl.rec.cigar = <<>>
       ELSE /\ Len(xl.rec.cigar) = Len(xl.reg.p)
            /\ \A i \in 1..Len(xl.reg.p) :
                  LET v == xl.reg.p[i]
                  IN /\ xl.rec.cigar[i].len * 16 <= v
                     /\ v < (xl.rec.cigar[i].len + 1) * 16
                     /\ xl.rec.cigar[i].kind = KindTable[v - (xl.rec.cigar[i].len * 16)]

C17_Witness ==
    /\ xl.part # 0
    /\ xl.reg.p = <<(10 * 16) + 0, (4 * 16) + 4, (1 * 16) + 6>>
    /\ xl.rec.cigar = <<[kind |-> "Match", len |-> 10], [kind |-> "SoftClip", len |-> 4],
                        [kind |-> "Match", len |-> 1]>>

\* C19: process_stream hands the callback the alignment lists of the input
\* records, one call per record and in input order: what was given so far is
\* always a prefix of the lists of the input, and all of them when the call
\* returns Ok; no batch call gets more than max(batch_size, 1) records; a
\* failing batch call or callback ends the call with that error, and once
\* the call has an outcome the callback is not invoked again.
ExpectedGiven == BatchResults(header, stream.input, Len(parts))

C19_StateOk ==
    /\ Len(stream.given) <= Len(stream.input)
    /\ stream.given = SubSeq(ExpectedGiven, 1, Len(stream.given))
    /\ \A k \in 1..Len(stream.sizes) :
          stream.sizes[k] >= 1 /\ stream.sizes[k] <= Max(stream.size, 1)
    /\ (stream.pc = "done" /\ stream.out = "ok")
          => stream.given = ExpectedGiven
    /\ stream.pc = "done" => stream.out \in {"ok", "batch failed", "callback failed"}

C19_StepOk ==
    /\ (stream.pc = "batch" /\ stream'.pc = "done") => stream'.out = "batch failed"
    /\ (stream.pc = "callback" /\ stream'.pc = "done" /\ stream'.given # ExpectedGiven)
          => stream'.out = "callback failed"
    /\ stream.pc = "done" => stream' = IdleStream
    /\ Len(stream'.given) <= Len(stream.given) + 1 \/ stream'.pc = "idle"
    /\ stream'.out \in {"batch failed", "callback failed"} => stream'.pc = "done"

C20_ContractViolation ==
    (mainRun.st = "done" /\ mainRun.viol) => mainRun.out = "err"

\* an align_read call has returned or unwound
ReadDone == mainRun.st = "done" /\ mainRun.out # "header"

\* C21: align_read returns an error and no records for every query whose
\* name holds a NUL byte or is not valid UTF-8, whatever mm_map returned.
C21_InvalidEncoding ==
    (ReadDone /\ mainRun.q.kind # "ok")
    => mainRun.out = "err" /\ mainRun.recs = <<>>

\* C23: with_threads(opts, n) stores n on the aligner for batch operations:
\* the aligner's options are the given ones plus one thread-count annotation,
\* and a batch call on that aligner runs with the stored count n.
C23_StoredThreadCount ==
    /\ (ld.pc = "done" /\ ld.fn = "with_threads" /\ ld.out = "ok")
       => opts = [ld.given EXCEPT !.extra_params = Append(@, ThreadsParam(ld.threads))]
    /\ (/\ ld.fn = "with_threads" /\ ld.out = "ok"
        /\ ld.threads > 0
        /\ batch.pc \in {"spawn", "join"})
       => /\ batch.workers = EffectiveThreads(ld.threads, 0)
          /\ batch.chunks = Chunks(Len(batch.recs),
                                   ChunkSize(Len(batch.recs), batch.workers))

\* the records of the registers of one returned array whose translation
\* returned Ok, in array order
RECURSIVE KeptOf(_, _)
KeptOf(q, regs) ==
    IF regs = <<>> THEN <<>>
    ELSE LET r == RegToSamRecord(header, q.id, Head(regs))
         IN (IF r.ok THEN <<r>> ELSE <<>>) \o KeptOf(q, Tail(regs))

\* the kept records of the first k returned arrays, part after part
RECURSIVE RecordsOf(_, _, _)
RecordsOf(q, rets, k) ==
    IF k = 0 THEN <<>>
    ELSE RecordsOf(q, rets, k - 1)
           \o (IF rets[k].null THEN <<>> ELSE KeptOf(q, rets[k].regs))

\* some register of the returned arrays failed to translate (returned Err)
SomeRegFailed(q, rets) ==
    \E k \in DOMAIN rets : \E i \in DOMAIN rets[k].regs :
        ~RegToSamRecord(header, q.id, rets[k].regs[i]).ok

\* no register of the returned arrays makes the translation panic
NoRegPanics(q, rets) ==
    \A k \in DOMAIN rets : \A i \in DOMAIN rets[k].regs :
        ~RegToSamRecord(header, q.id, rets[k].regs[i]).panic

C24_RegsReleased ==
    ReadDone => mainRun.leaked = 0

\* C25: the parts are processed in part order; for every part the options
\* update for that part comes before the mapping call on it and after the
\* mapping call on the previous part, and every mapping call runs on options
\* last updated for its own part.
C25_UpdateBeforeMap ==
    /\ \A k \in DOMAIN mainRun.log :
          /\ mainRun.log[k].part = (k + 1) \div 2
          /\ mainRun.log[k].call = (IF k % 2 = 1 THEN "update" ELSE "map")
          /\ mainRun.log[k].upd = mainRun.log[k].part
    /\ (ReadDone /\ mainRun.out = "ok") => Len(mainRun.log) = 2 * Len(parts)
    /\ mainRun.st = "map" => mainRun.upd = mainRun.part

C25_Witness ==
    /\ ReadDone
    /\ mainRun.out = "ok"
    /\ Len(parts) = 2
    /\ Len(mainRun.log) = 4
    /\ mainRun.log[3].call = "update"
    /\ mainRun.log[3].part = 2
    /\ mainRun.log[4].call = "map"
    /\ mainRun.log[4].upd = 2

\* a worker's closure ends with an error or a panic in this step
WorkerFails(i) ==
    /\ i \in DOMAIN thr
    /\ thr[i].st \notin Terminated
    /\ i \in DOMAIN thr'
    /\ thr'[i].st \in {"err", "panic"}

\* C26: once the workers are spawned there is no cancellation: a failing
\* worker leaves the other workers as they are, the loss of a worker never
\* ends the call while another one runs, and align_batch returns only after
\* every spawned worker has terminated.
C26_NoCancellation ==
    /\ [](batch.pc = "done" => \A k \in DOMAIN thr : thr[k].st \in Terminated)
    /\ [][\A i \in DOMAIN thr :
            WorkerFails(i) => /\ batch' = batch
                              /\ \A j \in DOMAIN thr \ {i} : thr'[j] = thr[j]]_vars
    /\ [][(batch.pc # "done" /\ batch'.pc = "done" /\ thr # <<>>)
            => /\ thr' = thr
               /\ \A k \in DOMAIN thr : thr[k].st \in Terminated]_vars

\* the first worker has failed and the closure has left the join loop, while
\* the second worker is still inside a mapping call
C26_Witness ==
    /\ batch.pc = "wait"
    /\ Len(thr) = 2
    /\ thr[1].st = "err"
    /\ thr[2].st = "map"

\* C27: for an index of several parts, the reference id of a record made from
\* a hit in a part after the first names, in the dictionary, the sequence the
\* register denotes within its own part.
C27_LaterPartRefId ==
    (xl.part > 1 /\ Len(parts) > 1 /\ xl.rec.ok /\ xl.rec.rid # NoRid)
    => header[xl.rec.rid + 1].name = parts[xl.part][xl.reg.rid + 1].name

\* C28: the list align_read returns holds the translated records of the hits
\* of all parts, part after part in load order and, within a part, in the
\* order of the registers in the array mm_map returned.
C28_PartThenRegisterOrder ==
    (ReadDone /\ mainRun.out = "ok")
    => /\ Len(mainRun.rets) = Len(parts)
       /\ \A k \in DOMAIN mainRun.rets : mainRun.log[2 * k].part = k
       /\ mainRun.recs = RecordsOf(mainRun.q, mainRun.rets, Len(parts))

\* hits in both parts, two in the second: three records in that order
C28_Witness ==
    /\ ReadDone
    /\ mainRun.out = "ok"
    /\ Len(mainRun.rets) = 2
    /\ mainRun.rets[1].regs = <<Reg(1, 9, 1, 30, NoCigar)>>
    /\ mainRun.rets[2].regs = <<Reg(0, 5, 0, 60, NoCigar), Reg(1, 9, 1, 30, NoCigar)>>
    /\ Len(mainRun.recs) = 3
    /\ mainRun.recs[1].flags = REVERSE_COMPLEMENTED
    /\ mainRun.recs[2].flags = 0
    /\ mainRun.recs[3].flags = REVERSE_COMPLEMENTED

\* C29 (as claimed): every register, whatever its quality field in 0..255,
\* is translated into a record whose mapping quality is that field as a u8.
C29_MappingQualityAsClaimed ==
    (xl.part # 0 /\ ~xl.rec.panic)
    => xl.rec.ok /\ xl.rec.mapq = xl.reg.mapq

\* C29 (amended): for every quality field in 0..254 the record carries that
\* value; a register whose field is 255 is not translated into a record.
C29_MappingQuality ==
    (xl.part # 0 /\ ~xl.rec.panic)
    => IF xl.reg.mapq = 255 THEN ~xl.rec.ok
       ELSE xl.rec.ok /\ xl.rec.mapq = xl.reg.mapq

C29_Witness ==
    /\ xl.part # 0
    /\ xl.reg.mapq = 254
    /\ xl.rec.ok
    /\ xl.rec.mapq = 254
    /\ ~xl.rec.panic

\* C30: the translation of a register yields a start position that is absent
\* when reg.rs is negative and is reg.rs + 1 otherwise, up to reg.rs = i32::MAX.
C30_StartPosition ==
    (xl.part # 0 /\ xl.rec.ok)
    => /\ ~xl.rec.panic
       /\ IF xl.reg.rs < 0 THEN xl.rec.start = NoPos
          ELSE xl.rec.start > xl.reg.rs /\ xl.rec.start - xl.reg.rs = 1

\* C31: the record's reference id is the register's reference index when
\* that index is >= 0 and smaller than the number of dictionary entries, and
\* is absent otherwise; a present reference id is a position of the dictionary.
C31_ReferenceId ==
    xl.part # 0
    => /\ IF xl.reg.rid >= 0 /\ xl.reg.rid < Len(header)
          THEN xl.rec.rid = xl.reg.rid
          ELSE xl.rec.rid = NoRid
       /\ xl.rec.rid # NoRid => (xl.rec.rid + 1) \in DOMAIN header

\* an index just past the last dictionary entry: no reference id
C31_Witness ==
    /\ xl.part # 0
    /\ Len(header) >= 1
    /\ xl.reg.rid = Len(header)
    /\ xl.rec.ok
    /\ xl.rec.rid = NoRid

\* align_read on each query in input order with one aligner
Sequential(recs) == [i \in DOMAIN recs |-> AlignRead(header, recs[i], Len(parts))]

\* C32: when no call fails, align_batch returns the per-query record lists
\* that align_read gives for each query in input order with one aligner,
\* whatever the thread count and the chunking; a read on the calling thread
\* gives that same list.
C32_BatchEqualsSequential ==
    /\ (batch.pc = "done" /\ batch.outcome = "ok")
       => /\ DOMAIN batch.result = DOMAIN batch.recs
          /\ \A i \in DOMAIN batch.recs :
                /\ ~Sequential(batch.recs)[i].err
                /\ batch.result[i] = Sequential(batch.recs)[i].recs
    /\ (mainRun.st = "done" /\ mainRun.out = "ok")
       => /\ ~Sequential(<<mainRun.q>>)[1].err
          /\ mainRun.recs = Sequential(<<mainRun.q>>)[1].recs

\* three queries in two chunks of two and one, every list in its place
C32_Witness ==
    /\ batch.pc = "done"
    /\ batch.outcome = "ok"
    /\ batch.n = 2
    /\ Len(batch.recs) = 3
    /\ Len(batch.chunks) = 2
    /\ Len(batch.result) = 3
    /\ batch.result[1] # <<>>
    /\ batch.result[2] # batch.result[1]
    /\ batch.result[3] = Sequential(batch.recs)[3].recs

====
